---- MODULE Spec2Model ----
(***************************************************************************)
(* Bilingual chapter navigation and rendering engine of the parallel Book  *)
(* of Mormon site: the chapter page controller loadChapter, in its two     *)
(* variants (flex rows: src/js/app.js, table rows: src/unnamed/part_000).  *)
(*                                                                         *)
(* Scope: a load of chapter.html whose #prev-chapter and #next-chapter     *)
(* link elements exist; the presence of the verse container is a state     *)
(* variable because both variants branch on it.                            *)
(***************************************************************************)
EXTENDS Integers, Sequences, FiniteSets, TLC

VARIABLES
  variant,      \* "flex" (src/js/app.js) or "table" (src/unnamed/part_000)
  registry,     \* the BOOK_META the navigation arithmetic runs over
  book,         \* query parameter book (Null when absent)
  chapter,      \* parseInt(query parameter chapter, 10): <<n>>, or NaN
  mainParam,    \* query parameter main (Null when absent)
  secondParam,  \* query parameter second (Null when absent)
  hasContainer, \* whether #verse-container / #verse-table exists
  pc,           \* where loadChapter is suspended
  backLink,     \* language pair in #back-link's href, Unset before setBackLink
  booksResp,    \* how the /api/books request settled
  bookEntry,    \* the name the /api/books table held for book, or Undefined
  vocabResp,    \* how the /booksnames.json request settled
  vocabValue,   \* all[main].chapter of the vocabulary, or Undefined
  localized,    \* localized[book]: the trimmed name, or Undefined
  displayName,  \* header book name
  chapterWord,  \* chapter-label template
  chapterLabel, \* header chapter name: makeChapterLabel(chapter)
  prevLink,     \* target of #prev-chapter, Unset while it has no href
  nextLink,     \* target of #next-chapter, Unset while it has no href
  navEnabled,   \* aria-disabled removed from the two links
  verseReq,     \* the two /api/chapter requests: [main |-> r, second |-> r]
  chapterReqs,  \* number of /api/chapter requests issued by this load
  extrasReq,    \* the two /api/intro requests
  rows,         \* children of the verse container, top to bottom
  navFrom,      \* ChapterRef a followed link started from (navigation runs)
  navOp,        \* "none", "next" or "prev": the link followed last
  keyPresses    \* arrow-key presses that replaced the page so far

vars == <<variant, registry, book, chapter, mainParam, secondParam, hasContainer,
          pc, backLink, booksResp, bookEntry, vocabResp, vocabValue, localized,
          displayName, chapterWord, chapterLabel,
          prevLink, nextLink, navEnabled, verseReq, chapterReqs, extrasReq,
          rows, navFrom, navOp, keyPresses>>

loadVars == <<pc, backLink, booksResp, bookEntry, vocabResp, vocabValue, localized,
              displayName, chapterWord, chapterLabel,
              prevLink, nextLink, navEnabled, verseReq, chapterReqs, extrasReq,
              rows>>

(***************************************************************************)
(* Values                                                                  *)
(***************************************************************************)
\* URLSearchParams.get of an absent parameter.
Null == "<null>"
\* An href / field that was never assigned.
Unset == [book |-> "<unset>", chapter |-> <<>>, main |-> "<unset>", second |-> "<unset>"]

\* JavaScript numbers produced by parseInt: <<n>> is the integer n, <<>> is NaN.
NaN == <<>>
Num(n) == <<n>>
IsNaN(x) == x = <<>>
\* x + k and x - k
JsAdd(x, k) == IF IsNaN(x) THEN NaN ELSE Num(x[1] + k)
\* x >= n and x <= n for an integer n: false whenever x is NaN
JsGeq(x, n) == ~IsNaN(x) /\ x[1] >= n
JsLeq(x, n) == ~IsNaN(x) /\ x[1] <= n
\* a % b of JavaScript (truncated remainder), b > 0
JsRem(a, b) == IF a >= 0 THEN a % b ELSE 0 - ((0 - a) % b)
\* parseInt(chapter, 10) || 0
OrZero(x) == IF IsNaN(x) \/ x = Num(0) THEN 0 ELSE x[1]

(***************************************************************************)
(* Book registry                                                           *)
(***************************************************************************)
BOOK_META ==
  << [abbr |-> "1-ne",   chapters |-> 22],
     [abbr |-> "2-ne",   chapters |-> 33],
     [abbr |-> "jacob",  chapters |-> 7],
     [abbr |-> "enos",   chapters |-> 1],
     [abbr |-> "jarom",  chapters |-> 1],
     [abbr |-> "omni",   chapters |-> 1],
     [abbr |-> "w-of-m", chapters |-> 1],
     [abbr |-> "mosiah", chapters |-> 29],
     [abbr |-> "alma",   chapters |-> 63],
     [abbr |-> "hel",    chapters |-> 16],
     [abbr |-> "3-ne",   chapters |-> 30],
     [abbr |-> "4-ne",   chapters |-> 1],
     [abbr |-> "morm",   chapters |-> 9],
     [abbr |-> "ether",  chapters |-> 15],
     [abbr |-> "moro",   chapters |-> 10] >>

\* A bug variant of FindIndex: an absent book gets index 0.
FindIndexMissingZero(reg, b) ==
  IF \E i \in 1..Len(reg) : reg[i].abbr = b
  THEN (CHOOSE i \in 1..Len(reg) :
          reg[i].abbr = b /\ \A j \in 1..(i - 1) : reg[j].abbr # b) - 1
  ELSE 0

\* BOOK_META.findIndex(b => b.abbr === book): 0-based, -1 when absent
FindIndex(reg, b) ==
  IF \E i \in 1..Len(reg) : reg[i].abbr = b
  THEN (CHOOSE i \in 1..Len(reg) :
          reg[i].abbr = b /\ \A j \in 1..(i - 1) : reg[j].abbr # b) - 1
  ELSE -1

\* bookMeta ? bookMeta.chapters : 0
TotalChapters(reg, b) ==
  IF FindIndex(reg, b) >= 0 THEN reg[FindIndex(reg, b) + 1].chapters ELSE 0

\* BOOK_META[i] for a 0-based index i (-0 indexes like 0)
At(reg, i) == reg[i + 1]

(***************************************************************************)
(* Navigation calculator (the prev/next arithmetic of loadChapter)         *)
(***************************************************************************)
\* A bug variant of NextTarget: on a wrap the chapter number is not reset to 1.
NextTargetNoReset(reg, b, cur) ==
  IF JsGeq(cur, TotalChapters(reg, b))
  THEN [book |-> At(reg, JsRem(FindIndex(reg, b) + 1, Len(reg))).abbr,
        chapter |-> JsAdd(cur, 1)]
  ELSE [book |-> b, chapter |-> JsAdd(cur, 1)]

\* A bug variant of NextTarget: the wrap test is > instead of >=.
NextTargetStrict(reg, b, cur) ==
  IF ~IsNaN(cur) /\ cur[1] > TotalChapters(reg, b)
  THEN [book |-> At(reg, JsRem(FindIndex(reg, b) + 1, Len(reg))).abbr,
        chapter |-> Num(1)]
  ELSE [book |-> b, chapter |-> JsAdd(cur, 1)]

\* A bug variant of NextTarget: a wrap restarts the same book.
NextTargetSameBook(reg, b, cur) ==
  IF JsGeq(cur, TotalChapters(reg, b))
  THEN [book |-> b, chapter |-> Num(1)]
  ELSE [book |-> b, chapter |-> JsAdd(cur, 1)]

\* nextBookAbbr / nextChapterNum
NextTarget(reg, b, cur) ==
  IF JsGeq(cur, TotalChapters(reg, b))
  THEN [book |-> At(reg, JsRem(FindIndex(reg, b) + 1, Len(reg))).abbr,
        chapter |-> Num(1)]
  ELSE [book |-> b, chapter |-> JsAdd(cur, 1)]

\* A bug variant of PrevTarget: a wrap lands on chapter 1 of the preceding book.
PrevTargetFirstChapter(reg, b, cur) ==
  IF JsLeq(cur, 1)
  THEN [book |-> At(reg, JsRem(FindIndex(reg, b) - 1 + Len(reg), Len(reg))).abbr,
        chapter |-> Num(1)]
  ELSE [book |-> b, chapter |-> JsAdd(cur, -1)]

\* prevBookAbbr / prevChapterNum
PrevTarget(reg, b, cur) ==
  IF JsLeq(cur, 1)
  THEN LET pb == JsRem(FindIndex(reg, b) - 1 + Len(reg), Len(reg))
       IN  [book |-> At(reg, pb).abbr, chapter |-> Num(At(reg, pb).chapters)]
  ELSE [book |-> b, chapter |-> JsAdd(cur, -1)]

\* p.get("main") || <default>, p.get("second") || <default>
OrDefault(param, default) == IF param = Null \/ param = "" THEN default ELSE param

\* const main / const second of loadChapter
MainLang(v, param) == OrDefault(param, IF v = "flex" THEN "spa" ELSE "por")
SecondLang(v, param) == OrDefault(param, IF v = "flex" THEN "eng" ELSE "fra")

\* the href template of prevBtn / nextBtn
Href(target, main, second) ==
  [book |-> target.book, chapter |-> target.chapter, main |-> main, second |-> second]

(***************************************************************************)
(* Links: the href of a link is text, and the page it opens parses it again *)
(***************************************************************************)
\* language values of the model: codes, and values with "&", "+" and " "
Languages ==
  {"spa", "eng", "por", "fra", "deu", "ita", "a&b", "a", "a+b", "a b"}

\* the code points of a language value as `${main}` / `${second}` writes them
\* into the href (no encodeURIComponent)
LangChars(l) ==
  CASE l = "spa" -> <<115, 112, 97>>
    [] l = "eng" -> <<101, 110, 103>>
    [] l = "por" -> <<112, 111, 114>>
    [] l = "fra" -> <<102, 114, 97>>
    [] l = "deu" -> <<100, 101, 117>>
    [] l = "ita" -> <<105, 116, 97>>
    [] l = "a&b" -> <<97, 38, 98>>
    [] l = "a"   -> <<97>>
    [] l = "a+b" -> <<97, 43, 98>>
    [] l = "a b" -> <<97, 32, 98>>

\* the language value with these code points
LangText(cs) == CHOOSE l \in Languages : LangChars(l) = cs

\* new URLSearchParams(location.search).get(name) for a parameter whose text in
\* the query string is cs: the value ends at the first "&" (next parameter) or
\* "#" (fragment), and "+" reads as a space
RECURSIVE QueryValue(_)
QueryValue(cs) ==
  IF cs = <<>> \/ Head(cs) \in {38, 35} THEN <<>>
  ELSE <<IF Head(cs) = 43 THEN 32 ELSE Head(cs)>> \o QueryValue(Tail(cs))

\* the main / second parameter read by the page that a link written with the
\* language value l opens
LinkParam(l) == LangText(QueryValue(LangChars(l)))

(***************************************************************************)
(* Text: a string is a sequence of code points                             *)
(***************************************************************************)
\* the code points String.prototype.trim removes (space, tab, line feed)
IsSpace(c) == c \in {32, 9, 10}

RECURSIVE TrimStart(_)
TrimStart(s) == IF s # <<>> /\ IsSpace(Head(s)) THEN TrimStart(Tail(s)) ELSE s

RECURSIVE TrimEnd(_)
TrimEnd(s) ==
  IF s # <<>> /\ IsSpace(s[Len(s)]) THEN TrimEnd(SubSeq(s, 1, Len(s) - 1)) ELSE s

\* s.trim()
Trim(s) == TrimEnd(TrimStart(s))

\* s.startsWith("<")
StartsWithLt(s) == s # <<>> /\ s[1] = 60

\* s.toUpperCase() on ASCII text
ToUpperCase(s) == [i \in 1..Len(s) |-> IF s[i] \in 97..122 THEN s[i] - 32 ELSE s[i]]

\* /[A-Za-z\u00C0-\u024F\u0370-\u03FF\u0400-\u04FF\u0590-\u06FF\u0900-\u097F]/.test(s)
HasWordLetter(s) ==
  \E i \in 1..Len(s) :
    \/ s[i] \in 65..90      \/ s[i] \in 97..122
    \/ s[i] \in 192..591    \/ s[i] \in 880..1023
    \/ s[i] \in 1024..1279  \/ s[i] \in 1424..1791
    \/ s[i] \in 2304..2431

\* /[\u4E00-\u9FFF\u3040-\u30FF\uAC00-\uD7AF]/.test(s)
HasCJK(s) ==
  \E i \in 1..Len(s) :
    \/ s[i] \in 19968..40959 \/ s[i] \in 12352..12543 \/ s[i] \in 44032..55215

\* a table entry or vocabulary entry that is absent (undefined)
Undefined == << -1 >>

\* "Chapter"
DefaultChapterWord == <<67, 104, 97, 112, 116, 101, 114>>

\* the code points of the book parameter; (book || "") for an absent one
BookChars(b) ==
  CASE b = "1-ne"  -> <<49, 45, 110, 101>>
    [] b = "1-NE"  -> <<49, 45, 78, 69>>
    [] b = "2-ne"  -> <<50, 45, 110, 101>>
    [] b = "enos"  -> <<101, 110, 111, 115>>
    [] b = "moro"  -> <<109, 111, 114, 111>>
    [] b = "zzz"   -> <<122, 122, 122>>
    [] b = Null    -> <<>>
    [] OTHER       -> <<63>>

\* s.toLowerCase() on ASCII text
ToLowerCase(s) == [i \in 1..Len(s) |-> IF s[i] \in 65..90 THEN s[i] + 32 ELSE s[i]]

\* const bookKey = (book || "").trim().toLowerCase()
BookKey(b) == ToLowerCase(Trim(BookChars(b)))

\* localized[book] after the /api/books request settled with `outcome`; `entry` is
\* the name the table holds for book (Undefined: none)
Localized(outcome, entry) ==
  IF outcome = "ok" /\ entry # Undefined THEN Trim(entry) ELSE Undefined

\* A bug variant of DisplayName: an empty name is used as it is.
DisplayNameKeepsEmpty(loc, b) ==
  IF loc # Undefined /\ ~StartsWithLt(loc)
  THEN loc ELSE ToUpperCase(BookChars(b))

\* const displayName
DisplayName(loc, b) ==
  IF loc # Undefined /\ loc # <<>> /\ ~StartsWithLt(loc)
  THEN loc ELSE ToUpperCase(BookChars(b))

\* A bug variant of ChapterWord: every non-empty value is taken, word-like or not.
ChapterWordAnyText(outcome, value) ==
  IF outcome = "ok" /\ value # Undefined /\ Trim(value) # <<>>
  THEN Trim(value) ELSE DefaultChapterWord

\* chapterWord after the /booksnames.json request settled with `outcome`; `value` is
\* all?.[main]?.chapter (Undefined: none)
ChapterWord(outcome, value) ==
  IF outcome = "ok" /\ value # Undefined
     /\ Trim(value) # <<>> /\ (HasWordLetter(Trim(value)) \/ HasCJK(Trim(value)))
  THEN Trim(value) ELSE DefaultChapterWord

\* A bug variant of IsCJK: only the Han range is tested.
IsCJKHanOnly(s) == \E i \in 1..Len(s) : s[i] \in 19968..40959

\* const isCJK: /[\u4E00-\u9FFF\u3040-\u30FF\uAC00-\uD7AF]/.test(chapterWord)
IsCJK(s) ==
  \E i \in 1..Len(s) :
    \/ s[i] \in 19968..40959 \/ s[i] \in 12352..12543 \/ s[i] \in 44032..55215

\* `${n}` for an integer n: its decimal digits, with a minus sign when negative
RECURSIVE Digits(_)
Digits(n) ==
  IF n < 0 THEN <<45>> \o Digits(0 - n)
  ELSE IF n < 10 THEN <<48 + n>>
  ELSE Digits(n \div 10) \o <<48 + (n % 10)>>

\* the chapter query parameter as text: the digits of a number, "null" when absent
ChapterText(ch) == IF IsNaN(ch) THEN <<110, 117, 108, 108>> ELSE Digits(ch[1])

\* makeChapterLabel(n) for the template `word`; n is text already
MakeChapterLabel(word, n) == IF IsCJK(word) THEN n \o word ELSE word \o <<32>> \o n

(***************************************************************************)
(* Rows of the verse container                                             *)
(***************************************************************************)
\* escapeHtml(s) on the texts the extras service returns here
EscapeHtml(s) ==
  CASE s = "<i>" -> "&lt;i&gt;"
    [] s = "a&b" -> "a&amp;b"
    [] OTHER     -> s

\* s.trim() on the texts the extras service returns here
TrimText(s) == IF s = " " THEN "" ELSE s

\* the cell of a meta row: flex shows a dimmed dash for an empty side
MetaCell(v, text) ==
  IF text # "" THEN "<div class=meta-text>" \o EscapeHtml(text) \o "</div>"
  ELSE IF v = "flex" THEN "<div class=meta-text style=opacity:.5>-</div>" ELSE ""

\* A bug variant of PrependMetaRow: a row needs a text on both sides.
PrependMetaRowBothNeeded(v, present, rs, label, leftText, rightText) ==
  LET L == IF v = "flex" THEN TrimText(leftText) ELSE leftText
      R == IF v = "flex" THEN TrimText(rightText) ELSE rightText
  IN  IF ~present \/ (L = "" \/ R = "") THEN rs
      ELSE << [kind |-> "meta", label |-> label,
               left |-> MetaCell(v, L), right |-> MetaCell(v, R)] >> \o rs

\* prependMetaRow(container, label, leftText, rightText); `present`: the container
\* exists (the table variant tests it at the call)
PrependMetaRow(v, present, rs, label, leftText, rightText) ==
  LET L == IF v = "flex" THEN TrimText(leftText) ELSE leftText
      R == IF v = "flex" THEN TrimText(rightText) ELSE rightText
  IN  IF ~present \/ (L = "" /\ R = "") THEN rs
      ELSE << [kind |-> "meta", label |-> label,
               left |-> MetaCell(v, L), right |-> MetaCell(v, R)] >> \o rs

\* mainVerses[i] || "" for a 0-based i
VerseAt(verses, i) == IF i + 1 <= Len(verses) THEN verses[i + 1] ELSE ""

\* Math.max(mainVerses.length, secondVerses.length)
MaxLen(a, b) == IF Len(a) >= Len(b) THEN Len(a) ELSE Len(b)

\* A bug variant of VerseRows: the loop stops at the shorter sequence.
VerseRowsMin(mainVerses, secondVerses) ==
  [i \in 1..(IF Len(mainVerses) <= Len(secondVerses)
             THEN Len(mainVerses) ELSE Len(secondVerses)) |->
     [kind |-> "verse", label |-> "",
      left |-> VerseAt(mainVerses, i - 1), right |-> VerseAt(secondVerses, i - 1)]]

\* the rows the render loop creates, in creation order
VerseRows(mainVerses, secondVerses) ==
  [i \in 1..MaxLen(mainVerses, secondVerses) |->
     [kind |-> "verse", label |-> "",
      left |-> VerseAt(mainVerses, i - 1), right |-> VerseAt(secondVerses, i - 1)]]

\* A bug variant of AppendRows: each row is inserted on top of the container.
AppendRowsOnTop(present, rs, new) ==
  IF present THEN [i \in 1..Len(new) |-> new[Len(new) + 1 - i]] \o rs ELSE rs

\* container.appendChild(row) for every row of `new`, in order
AppendRows(present, rs, new) == IF present THEN rs \o new ELSE rs

\* the row of the catch block of the verse fetch
ErrorRow ==
  [kind |-> "error", label |-> "",
   left |-> "Unable to fetch content via proxy. Make sure the Flask server is running (see README).",
   right |-> ""]

(***************************************************************************)
(* Bounds and inputs                                                       *)
(***************************************************************************)
\* longest verse sequence a chapter response carries
MaxVerses == 2

\* (book, chapter) query parameters of the loads explored
LoadRefs ==
  { <<"1-ne", Num(1)>>, <<"1-NE", Num(1)>>, <<"1-ne", Num(22)>>,
    <<"moro", Num(10)>>, <<"zzz", Num(2)>>, <<Null, NaN>> }

\* values of the main and second query parameters
MainParams == {Null, "deu"}
SecondParams == {Null, "ita"}

\* how a label request can settle: fetch rejects, non-success status, body that
\* does not parse, success (a parsed body without the table has no entry)
LabelOutcomes == {"reject", "notok", "badjson", "ok"}

\* names the /api/books table may hold for the book: none, " Ne ", "<b"
BookNames == {Undefined, <<32, 78, 101, 32>>, <<60, 98>>}

\* values of all[main].chapter: none, " Cap ", U+7AE0 (CJK)
ChapterValues == {Undefined, <<32, 67, 97, 112, 32>>, <<31456>>}

\* the verses a language's chapter response carries
VerseTexts(side, n) == [i \in 1..n |-> side \o ToString(i)]

\* how a request that has not been issued, and one in flight, are recorded
Idle == [st |-> "idle", verses |-> <<>>, introduction |-> "", subtitle |-> ""]
Pending == [st |-> "pending", verses |-> <<>>, introduction |-> "", subtitle |-> ""]
Settled(st, verses, introduction, subtitle) ==
  [st |-> st, verses |-> verses, introduction |-> introduction, subtitle |-> subtitle]

\* data.verses of a body that has no verses field
NoVerses == <<Null>>

\* return data.verses || []
VersesOrEmpty(v) == IF v = NoVerses THEN <<>> ELSE v

\* results of one /api/chapter request: transport failure, non-success status,
\* unparsable body, body without verses, body with n verses
VerseResults(side) ==
  { Settled(st, <<>>, "", "") : st \in {"reject", "notok", "badjson"} }
  \cup { Settled("nofield", VersesOrEmpty(NoVerses), "", "") }
  \cup { Settled("ok", VersesOrEmpty(VerseTexts(side, n)), "", "") : n \in 0..MaxVerses }

\* bodies of a successful /api/intro response: (introduction, subtitle)
ExtrasBodies == { <<"", "">>, <<"intro", "">>, <<"intro", "<i>">>, <<" ", "">> }

\* results of one /api/intro request
ExtrasResults ==
  { Settled(st, <<>>, "", "") : st \in {"reject", "notok", "badjson"} }
  \cup { Settled("ok", <<>>, b[1], b[2]) : b \in ExtrasBodies }

Sides == {"main", "second"}
Other(side) == IF side = "main" THEN "second" ELSE "main"

(***************************************************************************)
(* loadChapter                                                             *)
(***************************************************************************)
main == MainLang(variant, mainParam)
second == SecondLang(variant, secondParam)

\* setBackLink: the language pair of the back link
BackLinkFor(mp, sp) ==
  [book |-> "", chapter |-> NaN, main |-> OrDefault(mp, "por"), second |-> OrDefault(sp, "fra")]

\* whether the try body of a label request ("books": /api/books, "vocab":
\* /booksnames.json) throws for this outcome; only the table variant's books
\* request throws on a non-success status
LabelThrows(v, req, outcome) ==
  outcome \in {"reject", "badjson"}
    \/ (v = "table" /\ req = "books" /\ outcome = "notok")

\* A bug variant of LabelCaught: only a failed parse is handled.
LabelCaughtParseOnly(v, req, outcome) == outcome = "badjson"

\* whether the catch clause of a label request handles what the try body threw
LabelCaught(v, req, outcome) == TRUE

\* A bug variant of VerseRejected: the response status is not tested.
VerseRejectedNoStatus(r) == r.st \in {"reject", "badjson"}

\* A bug variant of VerseRejected: a body without the verses field is refused too.
VerseRejectedMissingField(r) == r.st \in {"reject", "notok", "badjson", "nofield"}

\* whether getVersesViaProxy rejects: fetch rejected, !resp.ok, resp.json() rejected
VerseRejected(r) == r.st \in {"reject", "notok", "badjson"}

\* A bug variant of JoinSettled: a join is never taken as settled.
JoinSettledNever(p, awaiting) == FALSE

\* Promise.all: whether the join the load awaited has settled already, the load
\* being at position p; a promise that settles after its join changes nothing
JoinSettled(p, awaiting) == p # awaiting

\* A bug variant of JoinRejects: the join waits for both promises (allSettled).
JoinRejectsWhenAllSettled(result, other) ==
  other.st # "pending" /\ (VerseRejected(result) \/ VerseRejected(other))

\* Promise.all of the two verse promises: whether the join rejects when one promise
\* settles with `result`, the other promise being in state `other`
JoinRejects(result, other) == VerseRejected(result)

\* whether an extras promise rejects: fetch rejected or r.json() rejected
\* (a non-success response is replaced by the empty pair)
ExtrasRejected(r) == r.st \in {"reject", "badjson"}

\* A bug variant of IsSpecialChapter: the chapter number is not tested.
IsSpecialChapterAnyChapter(v, b, ch) ==
  IF v = "flex" THEN BookKey(b) = BookChars("1-ne") ELSE b = "1-ne"

\* if (bookKey === "1-ne" && chNum === 1) / if (book === "1-ne" && chNum === 1)
IsSpecialChapter(v, b, ch) ==
  /\ IF v = "flex" THEN BookKey(b) = BookChars("1-ne") ELSE b = "1-ne"
  /\ OrZero(ch) = 1

\* prevBtn.href, nextBtn.href and the removal of aria-disabled
NavLinks(reg, b, cur, m, s2) ==
  [prev |-> Href(PrevTarget(reg, b, cur), m, s2),
   next |-> Href(NextTarget(reg, b, cur), m, s2),
   enabled |-> TRUE]

\* the rows after the extras join fulfilled with (me, se) and the verses rendered
RenderWithMeta(v, present, rs, me, se, mv, sv) ==
  AppendRows(present,
    PrependMetaRow(v, present,
      PrependMetaRow(v, present, rs, "Introduction", me.introduction, se.introduction),
      "Book subtitle", me.subtitle, se.subtitle),
    VerseRows(mv, sv))

\* the rows after the verses rendered without meta rows
RenderPlain(present, rs, mv, sv) == AppendRows(present, rs, VerseRows(mv, sv))

TypeOK ==
  /\ variant \in {"flex", "table"}
  /\ pc \in {"start", "awaitBooks", "awaitVocab", "noContainer", "awaitVerses",
             "awaitExtras", "failed", "rendered", "crashed", "nav", "labels"}
  /\ hasContainer \in BOOLEAN
  /\ chapterReqs \in 0..2

Init ==
  /\ variant \in {"flex", "table"}
  /\ registry = BOOK_META
  /\ \E r \in LoadRefs : book = r[1] /\ chapter = r[2]
  /\ mainParam \in MainParams
  /\ secondParam \in SecondParams
  /\ hasContainer \in BOOLEAN
  /\ pc = "start"
  /\ backLink = Unset
  /\ booksResp = "none"
  /\ bookEntry = Undefined
  /\ vocabResp = "none"
  /\ vocabValue = Undefined
  /\ localized = Undefined
  /\ displayName = Undefined
  /\ chapterWord = DefaultChapterWord
  /\ chapterLabel = Undefined
  /\ prevLink = Unset
  /\ nextLink = Unset
  /\ navEnabled = FALSE
  /\ verseReq = [s \in Sides |-> Idle]
  /\ chapterReqs = 0
  /\ extrasReq = [s \in Sides |-> Idle]
  /\ rows = <<>>
  /\ navFrom = [book |-> "", chapter |-> NaN]
  /\ navOp = "none"
  /\ keyPresses = 0

params == <<variant, registry, book, chapter, mainParam, secondParam, hasContainer,
            navFrom, navOp, keyPresses>>

\* loadChapter up to its first await: setBackLink, the parameters, the /api/books
\* request
Start ==
  /\ pc = "start"
  /\ backLink' = BackLinkFor(mainParam, secondParam)
  /\ pc' = "awaitBooks"
  /\ UNCHANGED <<params, booksResp, bookEntry, vocabResp, vocabValue, localized,
                 displayName, chapterWord, chapterLabel,
                 prevLink, nextLink, navEnabled, verseReq, chapterReqs, extrasReq, rows>>

\* the /api/books request settles; the /booksnames.json request is issued
BooksSettled ==
  /\ pc = "awaitBooks"
  /\ \E outcome \in LabelOutcomes, entry \in BookNames :
       /\ outcome # "ok" => entry = Undefined
       /\ booksResp' = outcome
       /\ bookEntry' = entry
       /\ localized' = Localized(outcome, entry)
       /\ pc' = IF LabelThrows(variant, "books", outcome)
                   /\ ~LabelCaught(variant, "books", outcome)
                THEN "crashed" ELSE "awaitVocab"
  /\ UNCHANGED <<params, backLink, vocabResp, vocabValue, displayName, chapterWord,
                 chapterLabel, prevLink, nextLink, navEnabled, verseReq, chapterReqs, extrasReq, rows>>

\* the /booksnames.json request settles; header, prev/next links, key listener and
\* badges are set, and the two verse requests are issued
VocabSettled ==
  /\ pc = "awaitVocab"
  /\ \E outcome \in LabelOutcomes, value \in ChapterValues :
       /\ outcome # "ok" => value = Undefined
       /\ vocabResp' = outcome
       /\ vocabValue' = value
       /\ IF LabelThrows(variant, "vocab", outcome)
             /\ ~LabelCaught(variant, "vocab", outcome)
          THEN /\ pc' = "crashed"
               /\ UNCHANGED <<chapterWord, displayName, chapterLabel, prevLink,
                              nextLink, navEnabled, verseReq, chapterReqs>>
          ELSE /\ chapterWord' = ChapterWord(outcome, value)
               /\ displayName' = DisplayName(localized, book)
               /\ chapterLabel' = MakeChapterLabel(chapterWord', ChapterText(chapter))
               /\ LET nav == NavLinks(registry, book, chapter, main, second)
                  IN  /\ prevLink' = nav.prev
                      /\ nextLink' = nav.next
                      /\ navEnabled' = nav.enabled
               /\ IF variant = "flex" /\ ~hasContainer
                  THEN /\ pc' = "noContainer"
                       /\ UNCHANGED <<verseReq, chapterReqs>>
                  ELSE /\ pc' = "awaitVerses"
                       /\ verseReq' = [s \in Sides |-> Pending]
                       /\ chapterReqs' = chapterReqs + 2
  /\ UNCHANGED <<params, backLink, booksResp, bookEntry, localized, extrasReq, rows>>

\* one /api/chapter request settles; the Promise.all join of the two continues the
\* load when it settles: the catch block, the extras requests, or the render loop
VerseSettled ==
  \E side \in Sides : \E result \in VerseResults(side) :
    /\ verseReq[side].st = "pending"
    /\ verseReq' = [verseReq EXCEPT ![side] = result]
    /\ IF JoinSettled(pc, "awaitVerses")
       THEN UNCHANGED <<pc, rows, extrasReq>>
       ELSE IF JoinRejects(result, verseReq[Other(side)])
       THEN /\ rows' = AppendRows(hasContainer, rows, <<ErrorRow>>)
            /\ pc' = "failed"
            /\ UNCHANGED extrasReq
       ELSE IF verseReq[Other(side)].st = "pending"
       THEN UNCHANGED <<pc, rows, extrasReq>>
       ELSE IF IsSpecialChapter(variant, book, chapter)
       THEN /\ extrasReq' = [s \in Sides |-> Pending]
            /\ pc' = "awaitExtras"
            /\ UNCHANGED rows
       ELSE /\ rows' = RenderPlain(hasContainer, rows,
                                   verseReq'["main"].verses, verseReq'["second"].verses)
            /\ pc' = "rendered"
            /\ UNCHANGED extrasReq
    /\ UNCHANGED <<params, backLink, booksResp, bookEntry, vocabResp, vocabValue,
                   localized, displayName, chapterWord, chapterLabel,
                   prevLink, nextLink, navEnabled, chapterReqs>>

\* one /api/intro request settles; the Promise.all join of the two continues the
\* load when it settles: meta rows (join fulfilled) and the render loop
ExtrasSettled ==
  \E side \in Sides, result \in ExtrasResults :
    /\ extrasReq[side].st = "pending"
    /\ extrasReq' = [extrasReq EXCEPT ![side] = result]
    /\ IF JoinSettled(pc, "awaitExtras")
       THEN UNCHANGED <<pc, rows>>
       ELSE IF ExtrasRejected(result)
       THEN /\ rows' = RenderPlain(hasContainer, rows,
                                   verseReq["main"].verses, verseReq["second"].verses)
            /\ pc' = "rendered"
       ELSE IF extrasReq[Other(side)].st = "pending"
       THEN UNCHANGED <<pc, rows>>
       ELSE /\ rows' = RenderWithMeta(variant, hasContainer, rows,
                                      extrasReq'["main"], extrasReq'["second"],
                                      verseReq["main"].verses, verseReq["second"].verses)
            /\ pc' = "rendered"
    /\ UNCHANGED <<params, backLink, booksResp, bookEntry, vocabResp, vocabValue,
                   localized, displayName, chapterWord, chapterLabel,
                   prevLink, nextLink, navEnabled, verseReq, chapterReqs>>

Next == Start \/ BooksSettled \/ VocabSettled \/ VerseSettled \/ ExtrasSettled

Spec == Init /\ [][Next]_vars

\* loads without main / second parameters, in which the handler runs and every
\* issued request eventually settles
InitLive == Init /\ mainParam = Null /\ secondParam = Null

SpecLive ==
  /\ InitLive /\ [][Next]_vars
  /\ WF_vars(Start) /\ WF_vars(BooksSettled) /\ WF_vars(VocabSettled)
  /\ WF_vars(VerseSettled) /\ WF_vars(ExtrasSettled)

(***************************************************************************)
(* Loads with arrow keys: while a page is loading or after it has loaded,  *)
(* the reader presses ArrowLeft or ArrowRight; the browser leaves the page *)
(* and loads the page of the link                                          *)
(***************************************************************************)
\* arrow-key presses explored in one run
MaxKeyPresses == 1

\* (book, chapter) of the first page of a run with arrow keys
KeyRefs == { <<"1-ne", Num(1)>>, <<"moro", Num(10)>> }

Keys == {"ArrowLeft", "ArrowRight"}

InitKeys ==
  /\ InitLive
  /\ hasContainer
  /\ <<book, chapter>> \in KeyRefs

\* A bug variant of KeyTarget: the two keys are exchanged.
KeyTargetSwapped(key, prev, next) == IF key = "ArrowLeft" THEN next ELSE prev

\* the keydown listener: the href that is assigned to window.location.href
KeyTarget(key, prev, next) == IF key = "ArrowLeft" THEN prev ELSE next

\* a keydown of an arrow key once the listener is registered (the links have their
\* hrefs): window.location.href is assigned, the document with its pending requests
\* is discarded and loadChapter starts again in the document of the target
KeyPress ==
  /\ keyPresses < MaxKeyPresses
  /\ pc \in {"awaitVerses", "awaitExtras", "failed", "rendered", "noContainer"}
  /\ \E key \in Keys :
       LET target == KeyTarget(key, prevLink, nextLink)
       IN  /\ target # Unset
           /\ book' = target.book
           /\ chapter' = target.chapter
           /\ mainParam' = LinkParam(target.main)
           /\ secondParam' = LinkParam(target.second)
           /\ navOp' = IF key = "ArrowLeft" THEN "prev" ELSE "next"
  /\ navFrom' = [book |-> book, chapter |-> chapter]
  /\ keyPresses' = keyPresses + 1
  /\ pc' = "start"
  /\ backLink' = Unset
  /\ booksResp' = "none"
  /\ bookEntry' = Undefined
  /\ vocabResp' = "none"
  /\ vocabValue' = Undefined
  /\ localized' = Undefined
  /\ displayName' = Undefined
  /\ chapterWord' = DefaultChapterWord
  /\ chapterLabel' = Undefined
  /\ prevLink' = Unset
  /\ nextLink' = Unset
  /\ navEnabled' = FALSE
  /\ verseReq' = [s \in Sides |-> Idle]
  /\ chapterReqs' = 0
  /\ extrasReq' = [s \in Sides |-> Idle]
  /\ rows' = <<>>
  /\ UNCHANGED <<variant, registry, hasContainer>>

NextKeys ==
  Start \/ BooksSettled \/ VocabSettled \/ VerseSettled \/ ExtrasSettled \/ KeyPress

SpecKeys == InitKeys /\ [][NextKeys]_vars

(***************************************************************************)
(* Navigation runs: the reader follows the prev / next link of a page, which *)
(* loads the page of the link's target.  The registry is drawn from the real *)
(* one and from short ones, over which the same arithmetic runs.            *)
(***************************************************************************)
\* chapters an unknown book is opened at: NaN, 0, 1, .., MaxUnknownChapter
MaxUnknownChapter == 3

Registries ==
  { BOOK_META, SubSeq(BOOK_META, 1, 1), SubSeq(BOOK_META, 4, 4),
    SubSeq(BOOK_META, 3, 5), SubSeq(BOOK_META, 14, 15) }

\* values of the main and second query parameters of the first page of a run
NavMainParams == {Null, "deu", "a&b"}
NavSecondParams == {Null, "ita", "a+b"}

InitNav ==
  /\ variant \in {"flex", "table"}
  /\ registry \in Registries
  /\ \/ \E i \in 1..Len(registry) :
          /\ book = registry[i].abbr
          /\ \E n \in 1..registry[i].chapters : chapter = Num(n)
     \/ /\ book = "zzz"
        /\ chapter \in {NaN} \cup {Num(n) : n \in (0 - MaxUnknownChapter)..MaxUnknownChapter}
  /\ mainParam \in NavMainParams
  /\ secondParam \in NavSecondParams
  /\ hasContainer = TRUE
  /\ pc = "nav"
  /\ backLink = Unset
  /\ booksResp = "none"
  /\ bookEntry = Undefined
  /\ vocabResp = "none"
  /\ vocabValue = Undefined
  /\ localized = Undefined
  /\ displayName = Undefined
  /\ chapterWord = DefaultChapterWord
  /\ chapterLabel = Undefined
  /\ prevLink = Unset
  /\ nextLink = Unset
  /\ navEnabled = FALSE
  /\ verseReq = [s \in Sides |-> Idle]
  /\ chapterReqs = 0
  /\ extrasReq = [s \in Sides |-> Idle]
  /\ rows = <<>>
  /\ navFrom = [book |-> "", chapter |-> NaN]
  /\ navOp = "none"
  /\ keyPresses = 0

\* the page computes its links and the reader follows the next link
FollowNext ==
  /\ pc = "nav"
  /\ LET nav == NavLinks(registry, book, chapter, main, second)
     IN  /\ book' = nav.next.book
         /\ chapter' = nav.next.chapter
         /\ mainParam' = LinkParam(nav.next.main)
         /\ secondParam' = LinkParam(nav.next.second)
  /\ navFrom' = [book |-> book, chapter |-> chapter]
  /\ navOp' = "next"
  /\ UNCHANGED <<variant, registry, hasContainer, loadVars, keyPresses>>

\* the page computes its links and the reader follows the prev link
FollowPrev ==
  /\ pc = "nav"
  /\ LET nav == NavLinks(registry, book, chapter, main, second)
     IN  /\ book' = nav.prev.book
         /\ chapter' = nav.prev.chapter
         /\ mainParam' = LinkParam(nav.prev.main)
         /\ secondParam' = LinkParam(nav.prev.second)
  /\ navFrom' = [book |-> book, chapter |-> chapter]
  /\ navOp' = "prev"
  /\ UNCHANGED <<variant, registry, hasContainer, loadVars, keyPresses>>

NextNav == FollowNext \/ FollowPrev

SpecNav == InitNav /\ [][NextNav]_vars

(***************************************************************************)
(* Label resolution on its own: the two label requests of a chapter page   *)
(* settle with names and vocabulary values of many shapes, and the header  *)
(* is written                                                              *)
(***************************************************************************)
\* largest chapter number whose label is built
MaxLabelChapter == 11

\* book parameters whose display name is resolved
LabelBooks == {"1-ne", "moro", "zzz", Null}

\* names the /api/books table may hold for the book: none, "", " ", "Ne", " Ne ",
\* "<b", " <b"
LabelBookNames ==
  { Undefined, <<>>, <<32>>, <<78, 101>>, <<32, 78, 101, 32>>, <<60, 98>>,
    <<32, 60, 98>> }

\* values of all[main].chapter: none, "", " ", "12", "*", " Cap ", Cyrillic
\* U+0413 U+043B, Han U+7AE0, " " Han " ", Kana U+3057 U+3087 U+3046, Hangul U+C7A5,
\* "C" Han, "1" Han
LabelChapterValues ==
  { Undefined, <<>>, <<32>>, <<49, 50>>, <<42>>, <<32, 67, 97, 112, 32>>,
    <<1043, 1083>>, <<31456>>, <<32, 31456, 32>>, <<12375, 12423, 12358>>,
    <<51109>>, <<67, 31456>>, <<49, 31456>> }

InitLabels ==
  /\ variant \in {"flex", "table"}
  /\ registry = BOOK_META
  /\ book \in LabelBooks
  /\ chapter \in {NaN} \cup { Num(n) : n \in 1..MaxLabelChapter }
  /\ mainParam = Null
  /\ secondParam = Null
  /\ hasContainer = TRUE
  /\ pc = "labels"
  /\ backLink = Unset
  /\ booksResp = "none"
  /\ bookEntry = Undefined
  /\ vocabResp = "none"
  /\ vocabValue = Undefined
  /\ localized = Undefined
  /\ displayName = Undefined
  /\ chapterWord = DefaultChapterWord
  /\ chapterLabel = Undefined
  /\ prevLink = Unset
  /\ nextLink = Unset
  /\ navEnabled = FALSE
  /\ verseReq = [s \in Sides |-> Idle]
  /\ chapterReqs = 0
  /\ extrasReq = [s \in Sides |-> Idle]
  /\ rows = <<>>
  /\ navFrom = [book |-> "", chapter |-> NaN]
  /\ navOp = "none"
  /\ keyPresses = 0

\* both label requests settle (each try block runs to its end or to its catch) and
\* the header's book name and chapter name are computed
ResolveLabels ==
  /\ pc = "labels"
  /\ \E bo \in LabelOutcomes, entry \in LabelBookNames,
        vo \in LabelOutcomes, value \in LabelChapterValues :
       /\ bo # "ok" => entry = Undefined
       /\ vo # "ok" => value = Undefined
       /\ booksResp' = bo
       /\ bookEntry' = entry
       /\ localized' = Localized(bo, entry)
       /\ vocabResp' = vo
       /\ vocabValue' = value
       /\ chapterWord' = ChapterWord(vo, value)
       /\ displayName' = DisplayName(localized', book)
       /\ chapterLabel' = MakeChapterLabel(chapterWord', ChapterText(chapter))
  /\ UNCHANGED <<params, pc, backLink, prevLink, nextLink, navEnabled, verseReq,
                 chapterReqs, extrasReq, rows>>

NextLabels == ResolveLabels

SpecLabels == InitLabels /\ [][NextLabels]_vars

(***************************************************************************)
(* Vocabulary of the properties                                            *)
(***************************************************************************)
\* the abbreviations of a registry, the position of one (1-based) and the chapter
\* count listed for it
Books(reg) == { reg[i].abbr : i \in 1..Len(reg) }
Position(reg, b) == CHOOSE i \in 1..Len(reg) : reg[i].abbr = b
ChapterCount(reg, b) == reg[Position(reg, b)].chapters

\* a ChapterRef [book, chapter] is valid
ValidRef(reg, r) ==
  /\ r.book \in Books(reg)
  /\ Len(r.chapter) = 1
  /\ r.chapter[1] \in 1..ChapterCount(reg, r.book)

\* the book after / before b in registry order, wrapping around
Following(reg, b) ==
  IF Position(reg, b) = Len(reg) THEN reg[1].abbr ELSE reg[Position(reg, b) + 1].abbr
Preceding(reg, b) ==
  IF Position(reg, b) = 1 THEN reg[Len(reg)].abbr ELSE reg[Position(reg, b) - 1].abbr

current == [book |-> book, chapter |-> chapter]
Ref(b, n) == [book |-> b, chapter |-> <<n>>]

RowsOfKind(k) == SelectSeq(rows, LAMBDA r : r.kind = k)

\* a per-language verse request failed: transport error, non-success response (or a
\* body that cannot be parsed)
VerseFailed(side) == verseReq[side].st \in {"reject", "notok", "badjson"}
VerseSucceeded(side) == verseReq[side].st \in {"ok", "nofield"}

(***************************************************************************)
(* C1                                                                      *)
(***************************************************************************)
\* C1: in a load whose page has the verse container, as soon as either verse
\* request has failed (one or both, in any order), the displayed rows are exactly
\* one error row: no verse row, no meta row, nothing of the language that succeeded.
C1_FailureShowsOnlyErrorRow ==
  (hasContainer /\ \E side \in Sides : VerseFailed(side))
    => /\ rows = <<ErrorRow>>
       /\ pc = "failed"

\* one language succeeded with verses, the other got a non-success response
C1_Witness ==
  /\ hasContainer
  /\ verseReq["main"].st = "ok" /\ Len(verseReq["main"].verses) = MaxVerses
  /\ verseReq["second"].st = "notok"
  /\ rows = <<ErrorRow>>

(***************************************************************************)
(* C2, C3, C4 (navigation runs)                                            *)
(***************************************************************************)
\* C2: from every valid ChapterRef the next link leads to the same book, chapter + 1,
\* when the chapter is not the book's last, and otherwise to chapter 1 of the
\* following book in registry order, wrapping from the last book to the first;
\* next of {1-ne, 22} is {2-ne, 1} and next of {moro, 10} is {1-ne, 1}.
C2_NextTarget ==
  (navOp = "next" /\ ValidRef(registry, navFrom))
    => /\ current =
            IF navFrom.chapter[1] < ChapterCount(registry, navFrom.book)
            THEN Ref(navFrom.book, navFrom.chapter[1] + 1)
            ELSE Ref(Following(registry, navFrom.book), 1)
       /\ (registry = BOOK_META /\ navFrom = Ref("1-ne", 22)) => current = Ref("2-ne", 1)
       /\ (registry = BOOK_META /\ navFrom = Ref("moro", 10)) => current = Ref("1-ne", 1)

\* the next link was followed from the last chapter of the last book
C2_Witness ==
  /\ registry = BOOK_META
  /\ navOp = "next"
  /\ navFrom = Ref("moro", 10)
  /\ current = Ref("1-ne", 1)

\* C3: from every valid ChapterRef the prev link leads to the same book, chapter - 1,
\* when the chapter is above 1, and otherwise to the last chapter of the preceding
\* book in registry order, wrapping from the first book to the last; prev of
\* {1-ne, 1} is {moro, 10}.
C3_PrevTarget ==
  (navOp = "prev" /\ ValidRef(registry, navFrom))
    => /\ current =
            IF navFrom.chapter[1] > 1
            THEN Ref(navFrom.book, navFrom.chapter[1] - 1)
            ELSE Ref(Preceding(registry, navFrom.book),
                     ChapterCount(registry, Preceding(registry, navFrom.book)))
       /\ (registry = BOOK_META /\ navFrom = Ref("1-ne", 1)) => current = Ref("moro", 10)

\* the prev link was followed from the first chapter of the first book
C3_Witness ==
  /\ registry = BOOK_META
  /\ navOp = "prev"
  /\ navFrom = Ref("1-ne", 1)
  /\ current = Ref("moro", 10)

\* C4: on the page reached by the next link of a valid ChapterRef r the prev link
\* points back to r, and on the page reached by the prev link of r the next link
\* points back to r, also in a registry of one book and for books of one chapter
\* (a computation that failed would stop the run: none does).
C4_RoundTrip ==
  ValidRef(registry, navFrom)
    => /\ navOp = "next" => PrevTarget(registry, book, chapter) = navFrom
       /\ navOp = "prev" => NextTarget(registry, book, chapter) = navFrom
       /\ ValidRef(registry, current)

\* the self-loop of a registry of one book with one chapter, reached by prev
C4_Witness ==
  /\ Len(registry) = 1
  /\ registry[1].chapters = 1
  /\ navOp = "prev"
  /\ ValidRef(registry, navFrom)
  /\ current = navFrom

(***************************************************************************)
(* C5 .. C10 (chapter-page load)                                           *)
(***************************************************************************)
\* C5: when both verse requests succeeded with sequences of lengths m and s, the
\* load does not fail and, once rendered into the container, shows exactly max(m, s)
\* verse rows in index order; row i carries main[i] on the left and second[i] on
\* the right, and the empty string on a side whose sequence has ended.
C5_MergedRows ==
  (VerseSucceeded("main") /\ VerseSucceeded("second"))
    => LET mv == verseReq["main"].verses
           sv == verseReq["second"].verses
           vr == RowsOfKind("verse")
       IN  /\ pc \in {"awaitExtras", "rendered"}
           /\ RowsOfKind("error") = <<>>
           /\ (pc = "rendered" /\ hasContainer)
                => /\ Len(vr) = (IF Len(mv) >= Len(sv) THEN Len(mv) ELSE Len(sv))
                   /\ \A i \in 1..Len(vr) :
                        /\ vr[i].left = (IF i <= Len(mv) THEN mv[i] ELSE "")
                        /\ vr[i].right = (IF i <= Len(sv) THEN sv[i] ELSE "")

\* the main sequence is longer than the second one: the last row has an empty right
C5_Witness ==
  /\ pc = "rendered" /\ hasContainer
  /\ Len(verseReq["main"].verses) = MaxVerses
  /\ Len(verseReq["second"].verses) = MaxVerses - 1
  /\ Len(RowsOfKind("verse")) = MaxVerses
  /\ rows[Len(rows)].left = "main" \o ToString(MaxVerses)
  /\ rows[Len(rows)].right = ""

\* C6: whenever the introduction meta row and the subtitle meta row are both
\* displayed, the introduction row is above the subtitle row.
C6_IntroductionAboveSubtitle ==
  \A i, j \in 1..Len(rows) :
    (rows[i].label = "Introduction" /\ rows[j].label = "Book subtitle") => i < j

\* C7: in every state of a load no verse row precedes a meta row, and an error row
\* never shares the display with a verse row.
C7_MetaRowsFirst ==
  /\ \A i, j \in 1..Len(rows) :
       (rows[i].kind = "verse" /\ rows[j].kind = "meta") => j < i
  /\ RowsOfKind("error") = <<>> \/ RowsOfKind("verse") = <<>>

\* two meta rows on top of a full verse sequence
C7_Witness ==
  /\ Len(RowsOfKind("meta")) = 2
  /\ Len(RowsOfKind("verse")) = MaxVerses
  /\ rows[1].kind = "meta" /\ rows[2].kind = "meta" /\ rows[Len(rows)].kind = "verse"

\* C8: when one language's extras request failed in any way and the other one
\* succeeded with a non-empty introduction, the rendered display has the
\* introduction meta row with the succeeding language's text.
C8_ExtrasFallBackIndependently ==
  \A side \in Sides :
    ( /\ pc = "rendered" /\ hasContainer
      /\ extrasReq[side].st \in {"reject", "notok", "badjson"}
      /\ extrasReq[Other(side)].st = "ok"
      /\ extrasReq[Other(side)].introduction = "intro" )
    => \E i \in 1..Len(rows) :
         /\ rows[i].kind = "meta" /\ rows[i].label = "Introduction"
         /\ (IF side = "main" THEN rows[i].right ELSE rows[i].left)
              = MetaCell(variant, "intro")

\* C9: once the links of a load whose book is not in the registry were computed, the
\* prev and next links are inert: no target assigned, still disabled.
C9_UnknownBookLinksInert ==
  (book \notin Books(registry) /\ vocabResp # "none")
    => /\ prevLink = Unset
       /\ nextLink = Unset
       /\ ~navEnabled

\* C10: whatever the outcomes of the book-name request and of the vocabulary
\* request, the load goes on: after the first it awaits the second, after the
\* second the prev/next links are set and enabled and both verse requests are
\* issued (on a page that has the verse container), and an error row shows only
\* when a verse request failed.
C10_LabelFailuresNeverAbort ==
  /\ pc # "crashed"
  /\ (booksResp # "none" /\ vocabResp = "none") => pc = "awaitVocab"
  /\ vocabResp # "none"
       => /\ prevLink # Unset /\ nextLink # Unset /\ navEnabled
          /\ hasContainer
               => /\ chapterReqs = 2
                  /\ \A side \in Sides : verseReq[side].st # "idle"
  /\ RowsOfKind("error") # <<>> => \E side \in Sides : VerseFailed(side)

\* both label requests failed (transport failure, unparsable body) and the two verse
\* requests are in flight
C10_Witness ==
  /\ booksResp = "reject"
  /\ vocabResp = "badjson"
  /\ pc = "awaitVerses"
  /\ chapterReqs = 2
  /\ nextLink # Unset

(***************************************************************************)
(* C11, C12 (label resolution)                                             *)
(***************************************************************************)
\* the header's labels have been resolved
LabelsResolved == pc = "labels" /\ booksResp # "none"

\* the name the service returned for the book, surrounding whitespace removed
ServiceName == Trim(bookEntry)

\* C11 as stated: the display name is the name returned by the name service exactly
\* when the request succeeded, the table has an entry for the abbreviation and the
\* name does not begin with '<'; in every other case it is the uppercased
\* abbreviation.
C11_DisplayNameAsStated ==
  LabelsResolved =>
    displayName =
      IF booksResp = "ok" /\ bookEntry # Undefined /\ ~StartsWithLt(ServiceName)
      THEN ServiceName
      ELSE ToUpperCase(BookChars(book))

\* C11: the display name is the name returned by the name service (trimmed) exactly
\* when the request succeeded, the table has an entry for the abbreviation, and the
\* trimmed name is non-empty and does not begin with '<'; in every other case
\* (failure, non-success response, missing entry, empty or whitespace-only name,
\* sentinel-prefixed name) it is the uppercased abbreviation.
C11_DisplayName ==
  LabelsResolved =>
    displayName =
      IF /\ booksResp = "ok" /\ bookEntry # Undefined
         /\ ServiceName # <<>> /\ ServiceName[1] # 60
      THEN ServiceName
      ELSE ToUpperCase(BookChars(book))

\* the service answered with a whitespace-only name for moro and the header shows MORO
C11_Witness ==
  /\ LabelsResolved
  /\ booksResp = "ok" /\ bookEntry = <<32>> /\ book = "moro"
  /\ displayName = <<77, 79, 82, 79>>

\* the vocabulary entry for the main language, surrounding whitespace removed
VocabEntry == Trim(vocabValue)

\* C12: the chapter-label template is the (trimmed) vocabulary entry for the main
\* language exactly when the vocabulary request succeeded and the entry is present,
\* non-empty after trimming and word-like (at least one letter of the accepted
\* scripts); in every other case (request failed, non-success, entry missing, empty,
\* digits-only or symbols-only value) the template is the default "Chapter".
C12_ChapterTemplate ==
  LabelsResolved =>
    chapterWord =
      IF /\ vocabResp = "ok" /\ vocabValue # Undefined
         /\ VocabEntry # <<>>
         /\ (HasWordLetter(VocabEntry) \/ HasCJK(VocabEntry))
      THEN VocabEntry
      ELSE DefaultChapterWord

\* a digits-only entry was answered and the template stayed "Chapter"
C12_Witness ==
  /\ LabelsResolved
  /\ vocabResp = "ok" /\ vocabValue = <<49, 50>>
  /\ chapterWord = DefaultChapterWord

(***************************************************************************)
(* C13 .. C18 (chapter-page load)                                          *)
(***************************************************************************)
\* C13: a successful chapter response without the verses field counts as an empty
\* verse sequence: it never makes the load fail (the load is in the error state only
\* if the other request failed), and when the other request succeeded too the
\* rendered verse rows are those of the other language's sequence, with the empty
\* string on the side of the response without verses (zero rows if both are empty).
C13_MissingVersesIsEmpty ==
  \A side \in Sides :
    verseReq[side].st = "nofield" =>
      /\ pc = "failed" => VerseFailed(Other(side))
      /\ VerseSucceeded(Other(side)) =>
           LET ov == verseReq[Other(side)].verses
               vr == RowsOfKind("verse")
           IN  /\ pc \in {"awaitExtras", "rendered"}
               /\ RowsOfKind("error") = <<>>
               /\ (pc = "rendered" /\ hasContainer) =>
                    /\ Len(vr) = Len(ov)
                    /\ \A i \in 1..Len(vr) :
                         /\ vr[i].left = (IF side = "main" THEN "" ELSE ov[i])
                         /\ vr[i].right = (IF side = "main" THEN ov[i] ELSE "")

\* the main response has no verses field, the second one carries MaxVerses verses,
\* and the page shows MaxVerses rows with an empty left side
C13_Witness ==
  /\ pc = "rendered" /\ hasContainer
  /\ verseReq["main"].st = "nofield"
  /\ verseReq["second"].st = "ok" /\ Len(verseReq["second"].verses) = MaxVerses
  /\ Len(RowsOfKind("verse")) = MaxVerses
  /\ rows[Len(rows)].left = "" /\ rows[Len(rows)].right = "second" \o ToString(MaxVerses)

\* C14: once the back link is set, the (main, second) pair placed in it equals the
\* (main, second) pair the same load uses for its verse requests and its prev/next
\* links, for every combination of present and absent query parameters.
C14_BackLinkSameDefaults ==
  backLink # Unset => (backLink.main = main /\ backLink.second = second)

\* the steps of a load between its positions: Idle (start), ResolvingLabels
\* (awaitBooks, awaitVocab), ComputingNav (within the step that leaves awaitVocab),
\* FetchingContent (awaitVerses), InjectingMeta (awaitExtras), Failed, Rendered
LoadSteps ==
  { <<"start", "awaitBooks">>, <<"awaitBooks", "awaitVocab">>,
    <<"awaitVocab", "awaitVerses">>, <<"awaitVerses", "failed">>,
    <<"awaitVerses", "awaitExtras">>, <<"awaitVerses", "rendered">>,
    <<"awaitExtras", "rendered">> }

\* C15: a load on a page with the verse container moves only along Idle ->
\* ResolvingLabels -> ComputingNav -> FetchingContent -> (Failed | InjectingMeta ->
\* Rendered); when every issued request settles it eventually is Failed or Rendered,
\* and stays in the one it reached; in Failed the displayed rows never change; the
\* two chapter requests are issued once, together, and a settled one is never
\* issued again.
C15_LoadLifecycle ==
  /\ [][hasContainer /\ pc' # pc => <<pc, pc'>> \in LoadSteps]_vars
  /\ hasContainer => <>(pc \in {"failed", "rendered"})
  /\ [][(pc \in {"failed", "rendered"}) => (pc' = pc)]_vars
  /\ [][pc = "failed" => (rows' = rows)]_vars
  /\ [](chapterReqs = IF pc \in {"awaitVerses", "awaitExtras", "failed", "rendered"}
                      THEN 2 ELSE 0)
  /\ [][\A side \in Sides :
          verseReq[side].st \notin {"idle", "pending"}
            => (verseReq'[side] = verseReq[side])]_vars

\* the load failed while the other verse request was in flight, that request
\* settled afterwards, and the page still shows the one error row
C15_Witness ==
  /\ pc = "failed" /\ hasContainer
  /\ verseReq["main"].st = "reject" /\ verseReq["second"].st = "ok"
  /\ rows = <<ErrorRow>>
  /\ chapterReqs = 2

\* an extras request has been issued in this load
ExtrasIssued == \E side \in Sides : extrasReq[side].st # "idle"

\* C16 as stated: extras requests are issued, and meta rows appear, only when both
\* verse requests succeeded and the book and chapter parameters are those of the
\* first chapter of the first registry book (1-ne, 1); for every other parameter
\* value, a book that is no registry entry included, and for every failed load,
\* there is no extras request and no meta row.
C16_ExtrasOnlyFirstChapterAsStated ==
  (ExtrasIssued \/ RowsOfKind("meta") # <<>>)
    => /\ VerseSucceeded("main") /\ VerseSucceeded("second")
       /\ book = BOOK_META[1].abbr /\ chapter = Num(1)

\* C16: extras requests are issued, and meta rows appear, only when both verse
\* requests succeeded, the chapter is 1 and the book parameter names the first
\* registry book: equal to 1-ne as given in the table variant, equal to 1-ne after
\* trimming and lower-casing in the flex variant (so 1-NE, no registry entry, counts
\* there); otherwise, and in every failed load, no extras request and no meta row.
C16_ExtrasOnlyFirstChapter ==
  (ExtrasIssued \/ RowsOfKind("meta") # <<>>)
    => /\ VerseSucceeded("main") /\ VerseSucceeded("second")
       /\ chapter = Num(1)
       /\ IF variant = "flex"
          THEN ToLowerCase(Trim(BookChars(book))) = BookChars(BOOK_META[1].abbr)
          ELSE book = BOOK_META[1].abbr

\* the flex variant has issued the extras requests for the book parameter 1-NE
C16_Witness ==
  /\ variant = "flex" /\ book = "1-NE" /\ chapter = Num(1)
  /\ pc = "awaitExtras"
  /\ \A side \in Sides : extrasReq[side].st = "pending"

\* both extras requests were answered (with a body or with a non-success status,
\* which stands for the empty pair) and the page has been rendered into its container
ExtrasFulfilled ==
  /\ pc = "rendered" /\ hasContainer
  /\ \A side \in Sides : extrasReq[side].st \in {"ok", "notok"}

\* the number of displayed meta rows with this label
MetaRowCount(label) ==
  Len(SelectSeq(rows, LAMBDA r : r.kind = "meta" /\ r.label = label))

\* C17 as stated: a meta row (introduction or subtitle) is displayed, once, if and
\* only if at least one of its two language texts is non-empty.
C17_MetaRowIffSomeTextAsStated ==
  ExtrasFulfilled =>
    /\ MetaRowCount("Introduction") =
         IF extrasReq["main"].introduction # "" \/ extrasReq["second"].introduction # ""
         THEN 1 ELSE 0
    /\ MetaRowCount("Book subtitle") =
         IF extrasReq["main"].subtitle # "" \/ extrasReq["second"].subtitle # ""
         THEN 1 ELSE 0

\* a meta text as the variant tests it: the flex variant trims it first
TestedText(text) == IF variant = "flex" THEN TrimText(text) ELSE text

\* C17: a meta row (introduction or subtitle) is displayed, once, if and only if at
\* least one of its two language texts is non-empty, where the flex variant takes a
\* text after trimming (a whitespace-only text counts as empty there) and the table
\* variant takes it as given; with a non-empty introduction and empty subtitles
\* exactly one meta row is displayed.
C17_MetaRowIffSomeText ==
  ExtrasFulfilled =>
    /\ MetaRowCount("Introduction") =
         IF \/ TestedText(extrasReq["main"].introduction) # ""
            \/ TestedText(extrasReq["second"].introduction) # ""
         THEN 1 ELSE 0
    /\ MetaRowCount("Book subtitle") =
         IF \/ TestedText(extrasReq["main"].subtitle) # ""
            \/ TestedText(extrasReq["second"].subtitle) # ""
         THEN 1 ELSE 0
    /\ Len(RowsOfKind("meta")) = MetaRowCount("Introduction") + MetaRowCount("Book subtitle")

\* in the flex variant the only text is a whitespace-only introduction, and no meta
\* row is displayed
C17_Witness ==
  /\ ExtrasFulfilled /\ variant = "flex"
  /\ extrasReq["main"].introduction = " " /\ extrasReq["second"].introduction = ""
  /\ extrasReq["main"].subtitle = "" /\ extrasReq["second"].subtitle = ""
  /\ RowsOfKind("meta") = <<>>

\* both verse requests have settled
BothVerseSettled == \A side \in Sides : verseReq[side].st \notin {"idle", "pending"}

\* C18: the two verse requests are issued in one step, before either response can
\* arrive; a request that fails while the load awaits the pair puts the load in
\* Failed at once, the other request still in flight or not; in Failed no later
\* completion changes the rows; and once both have settled the outcome is fixed by
\* the two results alone, whatever their order: Failed with the one error row if
\* either failed, and past the verse fetch without an error row otherwise.
C18_OrderIndependentJoin ==
  /\ [](verseReq["main"].st = "idle" <=> verseReq["second"].st = "idle")
  /\ [][\A side \in Sides :
          (pc = "awaitVerses" /\ verseReq[side].st = "pending" /\ VerseFailed(side)')
            => (pc' = "failed")]_vars
  /\ [][pc = "failed" => (pc' = "failed" /\ rows' = rows)]_vars
  /\ [](BothVerseSettled =>
          IF VerseFailed("main") \/ VerseFailed("second")
          THEN pc = "failed" /\ (hasContainer => rows = <<ErrorRow>>)
          ELSE pc \in {"awaitExtras", "rendered"} /\ RowsOfKind("error") = <<>>)

\* the main request failed while the second one is still in flight, and the load
\* is Failed with the one error row
C18_Witness ==
  /\ pc = "failed" /\ hasContainer
  /\ verseReq["main"].st = "reject" /\ verseReq["second"].st = "pending"
  /\ rows = <<ErrorRow>>

(***************************************************************************)
(* C19 (chapter label)                                                     *)
(***************************************************************************)
\* the chapter number of the page as the header prints it
LabelNumber == ChapterText(chapter)

\* C19: the chapter label is the number followed by the template when the template
\* is classified CJK and the template, a space and the number otherwise; the
\* classification used for formatting agrees with the CJK pattern of the word-like
\* test, so a template accepted only for its CJK characters is number-first and the
\* default "Chapter" is word-first; the label is a function of template and number.
C19_ChapterLabel ==
  LabelsResolved =>
    /\ IsCJK(chapterWord) <=> HasCJK(chapterWord)
    /\ chapterLabel =
         IF HasCJK(chapterWord) THEN LabelNumber \o chapterWord
         ELSE chapterWord \o <<32>> \o LabelNumber
    /\ (chapterWord # DefaultChapterWord /\ ~HasWordLetter(chapterWord))
         => chapterLabel = LabelNumber \o chapterWord
    /\ chapterWord = DefaultChapterWord
         => chapterLabel = DefaultChapterWord \o <<32>> \o LabelNumber

\* the Hangul template U+C7A5 for chapter MaxLabelChapter gives the digits first
C19_Witness ==
  /\ LabelsResolved
  /\ vocabValue = <<51109>> /\ chapter = Num(MaxLabelChapter)
  /\ chapterLabel = Digits(MaxLabelChapter) \o <<51109>>

(***************************************************************************)
(* C20 (navigation runs from a book that is not in the registry)           *)
(***************************************************************************)
\* the link that was followed started at a book that is no registry entry, with a
\* chapter parameter that is a number
FromUnknownBook ==
  /\ navOp # "none"
  /\ navFrom.book \notin Books(registry)
  /\ ~IsNaN(navFrom.chapter)

\* the registry entry at 0-based index (N - 2) mod N
BeforeLast(reg) == reg[((Len(reg) - 2) % Len(reg)) + 1]

\* C20 as stated: from a book that is not in the registry, for every chapter number
\* the next target is chapter 1 of the first registry book, and the prev target is
\* the unknown book at chapter - 1 when chapter > 1 and otherwise the last chapter
\* of the registry book at index (N - 2) mod N.
C20_UnknownBookTargetsAsStated ==
  FromUnknownBook =>
    /\ navOp = "next" => current = Ref(registry[1].abbr, 1)
    /\ navOp = "prev" =>
         current = IF navFrom.chapter[1] > 1
                   THEN Ref(navFrom.book, navFrom.chapter[1] - 1)
                   ELSE Ref(BeforeLast(registry).abbr, BeforeLast(registry).chapters)

\* C20: from a book that is not in the registry, the next target is chapter 1 of
\* the first registry book for every chapter number >= 0 and the unknown book at
\* chapter + 1 for a negative one; the prev target is the unknown book at
\* chapter - 1 when chapter > 1 and otherwise the last chapter of the registry book
\* at index (N - 2) mod N.
C20_UnknownBookTargets ==
  FromUnknownBook =>
    /\ navOp = "next" =>
         current = IF navFrom.chapter[1] >= 0
                   THEN Ref(registry[1].abbr, 1)
                   ELSE Ref(navFrom.book, navFrom.chapter[1] + 1)
    /\ navOp = "prev" =>
         current = IF navFrom.chapter[1] > 1
                   THEN Ref(navFrom.book, navFrom.chapter[1] - 1)
                   ELSE Ref(BeforeLast(registry).abbr, BeforeLast(registry).chapters)

\* the next link of the unknown book at chapter -1 was followed and led to the
\* unknown book at chapter 0
C20_Witness ==
  /\ navOp = "next"
  /\ navFrom = Ref("zzz", -1)
  /\ current = Ref("zzz", 0)

(***************************************************************************)
(* C21, C22, C23 (navigation)                                              *)
(***************************************************************************)
\* C23: the prev and next links of a page are written with the (main, second) pair
\* the page uses for its verse requests, and every followed link opens a page whose
\* active (main, second) pair is the one of the page that was left; so the pair
\* after any sequence of navigations is the pair of the first page.
C23_LanguagePairPreserved ==
  /\ [](LET nav == NavLinks(registry, book, chapter, main, second)
        IN  /\ nav.prev.main = main /\ nav.prev.second = second
            /\ nav.next.main = main /\ nav.next.second = second)
  /\ [][main' = main /\ second' = second]_vars

\* the sum of the chapter counts of a registry
RECURSIVE SumChapters(_)
SumChapters(reg) == IF reg = <<>> THEN 0 ELSE Head(reg).chapters + SumChapters(Tail(reg))

\* every valid ChapterRef of a registry
ValidRefs(reg) ==
  UNION { { Ref(reg[i].abbr, n) : n \in 1..reg[i].chapters } : i \in 1..Len(reg) }

\* the k pages reached by following the next link k >= 1 times in a row, starting
\* from the page r (r itself is not listed); computed in two halves
RECURSIVE NextRun(_, _, _)
NextRun(reg, r, k) ==
  IF k = 1 THEN <<NextTarget(reg, r.book, r.chapter)>>
  ELSE LET h == k \div 2
           first == NextRun(reg, r, h)
       IN  first \o NextRun(reg, first[h], k - h)

\* C22: a link followed from a valid ChapterRef leads to a valid ChapterRef (so
\* every page of a run that started at a valid one is valid), and from every valid
\* ChapterRef a run can start at, the run of next links visits each valid
\* ChapterRef of the registry exactly once and then is back at its start: one
\* cycle whose length is the sum of the chapter counts, 239 for BOOK_META.
C22_OneCycleOfValidRefs ==
  /\ (navOp # "none" /\ ValidRef(registry, navFrom)) => ValidRef(registry, current)
  /\ (navOp = "none" /\ ValidRef(registry, current)) =>
       LET total == SumChapters(registry)
           run == NextRun(registry, current, total)
           visited == { run[k] : k \in 1..total }
       IN  /\ visited = ValidRefs(registry)
           /\ Cardinality(visited) = total
           /\ run[total] = current
  /\ SumChapters(BOOK_META) = 239

\* the page after the last one of BOOK_META's first book, reached by a next link,
\* from which 239 next links lead back to it and no fewer do
C22_Witness ==
  /\ registry = BOOK_META
  /\ navOp = "next" /\ navFrom = Ref("1-ne", 22) /\ current = Ref("2-ne", 1)
  /\ LET run == NextRun(registry, current, 239)
     IN  run[239] = current /\ \A k \in 1..238 : run[k] # current

\* nothing of a load exists yet: no request issued, no row displayed
FreshLoad ==
  /\ pc = "start"
  /\ rows = <<>>
  /\ chapterReqs = 0
  /\ \A side \in Sides : verseReq[side] = Idle /\ extrasReq[side] = Idle

\* C21: an arrow-key press happens only once the links of the load are computed,
\* in any later position of the load (requests in flight, Failed, Rendered); it
\* starts a fresh load at exactly the prev (ArrowLeft) or next (ArrowRight) target
\* of the load it leaves, with no request of that load left in flight and no row
\* of it displayed; and in the new load the rows stem from its own responses
\* alone: none before its verse requests have settled, the one error row if one of
\* them failed, its own merged verse rows when rendered.
C21_KeyPressStartsIndependentLoad ==
  /\ [][keyPresses' # keyPresses =>
          /\ navEnabled
          /\ pc \in {"awaitVerses", "awaitExtras", "failed", "rendered"}
          /\ current' = (IF navOp' = "prev"
                         THEN PrevTarget(registry, book, chapter)
                         ELSE NextTarget(registry, book, chapter))
          /\ FreshLoad']_vars
  /\ [](keyPresses > 0 =>
          /\ (\E side \in Sides : verseReq[side].st \in {"idle", "pending"})
               => (rows = <<>> \/ (pc = "failed" /\ rows = <<ErrorRow>>))
          /\ pc = "failed" => rows = <<ErrorRow>>
          /\ pc = "rendered" =>
               RowsOfKind("verse")
                 = VerseRows(verseReq["main"].verses, verseReq["second"].verses))

\* ArrowRight was pressed on the last chapter of the last book; the load it started
\* at the first chapter of the first book has rendered its own verses
C21_Witness ==
  /\ keyPresses = 1
  /\ navOp = "next" /\ navFrom = Ref("moro", 10) /\ current = Ref("1-ne", 1)
  /\ pc = "rendered"
  /\ Len(RowsOfKind("verse")) = MaxVerses


=============================================================================
